---- MODULE Spec2Model ----
(***************************************************************************)
(* Median-based nested sampling (multilevel splitting) for the tail        *)
(* probability P(sum X_i >= n*a), modelled from src/nested_sampling.py.    *)
(*                                                                         *)
(* Coordinates are drawn from the finite set Vals instead of N(0,1).       *)
(* Statistics that numpy computes by interpolation (median, percentiles)   *)
(* are kept exactly, in quarter units: a stored threshold u_next stands    *)
(* for the real number u_next/4, and a row sum s is compared as 4*s.       *)
(***************************************************************************)
EXTENDS Integers, Sequences, FiniteSets, TLC

\* ---------------------------------------------------------------- bounds
MaxN == 3          \* largest population size N
MaxDim == 2        \* largest dimension n
MaxVal == 1        \* coordinates and proposals are drawn from 0..MaxVal
MaxA == 1          \* finite thresholds a are drawn from 0..MaxA
MaxLevel == 2      \* levels a run may complete before the model stops following it
MaxCells == 4      \* largest N*n
MaxStat == 4       \* largest statistic vector handed to the threshold estimator alone

Vals == 0..MaxVal
\* a is a finite number or an infinity (a nan compares like +inf: never reached)
AClasses == {"finite", "+inf", "-inf"}

VARIABLES
    N, n, a, a_class,      \* arguments of nested_sampling; a_class tells a finite a from +-inf
    pc,                    \* position of the call
    X,                     \* population, N rows of n coordinates
    iteration,
    thresholds, vars_median, accept_rates,
    u_next,                \* median of the current level, in quarter units
    j,                     \* next coordinate of the Gibbs sweep (0-based), n when the sweep is over
    proposals, accept,     \* proposals and accept mask of the last coordinate update
    total_accepts,
    K, prob,               \* result
    \* the sweep of refined_nested_sampling.py, run beside the one above
    samples, current_sums, accept_mask, total_accept

refined == <<samples, current_sums, accept_mask, total_accept>>

vars == <<N, n, a, a_class, pc, X, iteration, thresholds, vars_median,
          accept_rates, u_next, j, proposals, accept, total_accepts, K, prob,
          refined>>

\* ---------------------------------------------------------------- helpers
RECURSIVE SumSeq(_)
SumSeq(s) == IF Len(s) = 0 THEN 0 ELSE Head(s) + SumSeq(Tail(s))

\* X.sum(axis=1)
RowSums(P) == [i \in 1..Len(P) |-> SumSeq(P[i])]

RECURSIVE Insert(_, _)
Insert(x, s) ==
    IF Len(s) = 0 THEN <<x>>
    ELSE IF x <= Head(s) THEN <<x>> \o s
    ELSE <<Head(s)>> \o Insert(x, Tail(s))

RECURSIVE Sort(_)
Sort(s) == IF Len(s) = 0 THEN <<>> ELSE Insert(Head(s), Sort(Tail(s)))

\* np.median: middle order statistic, or the mean of the two middle ones (times 4)
Median(s) ==
    LET t == Sort(s)
        m == Len(t)
    IN  IF m % 2 = 1 THEN 4 * t[(m + 1) \div 2]
        ELSE 2 * (t[m \div 2] + t[m \div 2 + 1])

\* np.percentile(s, q), q a multiple of 25, linear interpolation between the
\* order statistics around position q/100*(len-1) (times 4)
Percentile(s, q) ==
    LET t == Sort(s)
        pos == (q \div 25) * (Len(t) - 1)
        lo == pos \div 4
        fr == pos % 4
    IN  IF fr = 0 THEN 4 * t[lo + 1]
        ELSE 4 * t[lo + 1] + fr * (t[lo + 2] - t[lo + 1])

Inf == [finite |-> FALSE, num |-> 1, den |-> 0]

VarMedianNoTieTest(s) ==
    LET d == Percentile(s, 75) - Percentile(s, 50)
    IN  [finite |-> TRUE, num |-> d * d, den |-> 16 * Len(s) * Len(s) * Len(s)]

\* var_median = 1/(4*N*f_u^2) with f_u = (N/2)/(q75-q50), i.e. (q75-q50)^2/N^3,
\* or inf when q75 <= q50
VarMedian(s) ==
    LET q75 == Percentile(s, 75)
        q50 == Percentile(s, 50)
    IN  IF q75 > q50
        THEN [finite |-> TRUE, num |-> (q75 - q50) * (q75 - q50),
              den |-> 16 * Len(s) * Len(s) * Len(s)]
        ELSE Inf

\* u >= target with target = n*a in floating point: n*inf is inf for n > 0 and
\* nan for n = 0; every comparison with nan is false
TargetReachedStrict(u) ==
    CASE a_class = "finite" -> u > 4 * n * a
      [] a_class = "+inf"   -> FALSE
      [] a_class = "-inf"   -> n > 0

TargetReached(u) ==
    CASE a_class = "finite" -> u >= 4 * n * a
      [] a_class = "+inf"   -> FALSE
      [] a_class = "-inf"   -> n > 0

RECURSIVE SelectRows(_, _, _)
SelectRows(P, s, u) ==
    IF Len(P) = 0 THEN <<>>
    ELSE (IF 4 * Head(s) >= u THEN <<Head(P)>> ELSE <<>>)
         \o SelectRows(Tail(P), Tail(s), u)

SurvivorsStrict(P, u) == SelectRows(P, RowSums(P), u + 1)

\* X[sums >= u_next]
Survivors(P, u) == SelectRows(P, RowSums(P), u)

GatherAll(P, surv, indices) == [i \in 1..Len(P) |-> P[indices[i]]]

\* survivors[indices].copy()
Gather(P, surv, indices) == [i \in 1..Len(P) |-> surv[indices[i]]]

AcceptAll(P, c, p, u) == [i \in 1..Len(P) |-> TRUE]

AcceptStale(P, c, p, u) ==
    [i \in 1..Len(P) |-> 4 * (SumSeq(P[i]) - P[i][1] + p[i]) >= u]

\* accept = (current_sums - X[:, j] + proposals) >= u_next, for the 1-based column c
Accept(P, c, p, u) ==
    [i \in 1..Len(P) |-> 4 * (SumSeq(P[i]) - P[i][c] + p[i]) >= u]

OverwriteRow(P, c, p, acc) ==
    [i \in 1..Len(P) |-> IF acc[i] THEN [k \in 1..Len(P[i]) |-> p[i]] ELSE P[i]]

\* X[accept, j] = proposals[accept]
Overwrite(P, c, p, acc) ==
    [i \in 1..Len(P) |-> IF acc[i] THEN [P[i] EXCEPT ![c] = p[i]] ELSE P[i]]

CountAll(acc) == Len(acc)

\* accept.sum()
Count(acc) == Cardinality({i \in 1..Len(acc) : acc[i]})

\* refined: new_sums = current_sums - samples[:, j] + prop, for the 1-based column c
NewSums(cs, S, c, p) == [i \in 1..Len(S) |-> cs[i] - S[i][c] + p[i]]

\* refined: accept_mask = new_sums >= u_k
AcceptMask(ns, u) == [i \in 1..Len(ns) |-> 4 * ns[i] >= u]

CacheKeepOld(cs, ns, mask) == cs

\* refined: current_sums[accept_mask] = new_sums[accept_mask]
CacheUpdate(cs, ns, mask) ==
    [i \in 1..Len(cs) |-> IF mask[i] THEN ns[i] ELSE cs[i]]

RECURSIVE Pow2(_)
Pow2(k) == IF k = 0 THEN 1 ELSE 2 * Pow2(k - 1)

\* 0.5 ** K as the fraction 1/2^K
HalfPower(k) == [num |-> 1, den |-> Pow2(k)]

ValidInput == N >= 2 /\ n >= 1 /\ a_class = "finite"

\* ---------------------------------------------------------------- actions
Init ==
    /\ N \in 1..MaxN
    /\ n \in 0..MaxDim
    /\ N * n <= MaxCells
    /\ a_class \in AClasses
    /\ a \in (IF a_class = "finite" THEN 0..MaxA ELSE {0})
    /\ pc = "init"
    /\ X = <<>>
    /\ iteration = 0
    /\ thresholds = <<>>
    /\ vars_median = <<>>
    /\ accept_rates = <<>>
    /\ u_next = 0
    /\ j = 0
    /\ proposals = <<>>
    /\ accept = <<>>
    /\ total_accepts = 0
    /\ K = 0
    /\ prob = HalfPower(0)
    /\ samples = <<>>
    /\ current_sums = <<>>
    /\ accept_mask = <<>>
    /\ total_accept = 0

\* lines 41-57: no argument is checked; the population is drawn
Initialize ==
    /\ pc = "init"
    /\ \E P \in [1..N -> [1..n -> Vals]] : X' = P
    /\ iteration' = 0
    /\ pc' = "loop"
    /\ UNCHANGED <<N, n, a, a_class, thresholds, vars_median, accept_rates,
                   u_next, j, proposals, accept, total_accepts, K, prob>>

\* lines 61-75
MedianStep ==
    /\ pc = "loop"
    /\ u_next' = Median(RowSums(X))
    /\ thresholds' = Append(thresholds, u_next')
    /\ vars_median' = Append(vars_median, VarMedian(RowSums(X)))
    /\ pc' = "check"
    /\ UNCHANGED <<N, n, a, a_class, X, iteration, accept_rates, j, proposals,
                   accept, total_accepts, K, prob>>

\* lines 83-86
Converge ==
    /\ pc = "check"
    /\ TargetReached(u_next)
    /\ pc' = "final"
    /\ UNCHANGED <<N, n, a, a_class, X, iteration, thresholds, vars_median,
                   accept_rates, u_next, j, proposals, accept, total_accepts, K, prob>>

Continue ==
    /\ pc = "check"
    /\ ~TargetReached(u_next)
    /\ iteration < MaxLevel
    /\ pc' = "select"
    /\ UNCHANGED <<N, n, a, a_class, X, iteration, thresholds, vars_median,
                   accept_rates, u_next, j, proposals, accept, total_accepts, K, prob>>

\* lines 89-100: selection and resampling; np.random.choice(0, size=N) raises
SelectResample ==
    /\ pc = "select"
    /\ LET survivors == Survivors(X, u_next)
           n_survivors == Len(survivors)
       IN  IF n_survivors = 0
           THEN /\ pc' = "ValueError"
                /\ UNCHANGED <<X, j, total_accepts>>
           ELSE /\ \E indices \in [1..N -> 1..n_survivors] :
                       X' = Gather(X, survivors, indices)
                /\ total_accepts' = 0
                /\ j' = 0
                /\ pc' = "gibbs"
    /\ UNCHANGED <<N, n, a, a_class, iteration, thresholds, vars_median,
                   accept_rates, u_next, proposals, accept, K, prob>>

\* lines 101-107: the update of coordinate j for all rows at once
GibbsStep ==
    /\ pc = "gibbs"
    /\ j < n
    /\ \E p \in [1..N -> Vals] :
          /\ proposals' = p
          /\ accept' = Accept(X, j + 1, p, u_next)
          /\ X' = Overwrite(X, j + 1, p, accept')
          /\ total_accepts' = total_accepts + Count(accept')
    /\ j' = j + 1
    /\ UNCHANGED <<N, n, a, a_class, pc, iteration, thresholds, vars_median,
                   accept_rates, u_next, K, prob>>

\* lines 109-115: total_accepts / (N * n) raises ZeroDivisionError when N*n = 0
EndSweep ==
    /\ pc = "gibbs"
    /\ j = n
    /\ IF N * n = 0
       THEN /\ pc' = "ZeroDivisionError"
            /\ UNCHANGED <<accept_rates, iteration>>
       ELSE /\ accept_rates' = Append(accept_rates, [num |-> total_accepts, den |-> N * n])
            /\ iteration' = iteration + 1
            /\ pc' = "loop"
    /\ UNCHANGED <<N, n, a, a_class, X, thresholds, vars_median, u_next, j,
                   proposals, accept, total_accepts, K, prob>>

\* lines 118-136
Return ==
    /\ pc = "final"
    /\ K' = iteration
    /\ prob' = HalfPower(iteration)
    /\ pc' = "done"
    /\ UNCHANGED <<N, n, a, a_class, X, iteration, thresholds, vars_median,
                   accept_rates, u_next, j, proposals, accept, total_accepts>>

Next ==
    \/ Initialize /\ UNCHANGED refined
    \/ MedianStep /\ UNCHANGED refined
    \/ Converge /\ UNCHANGED refined
    \/ Continue /\ UNCHANGED refined
    \/ SelectResample /\ UNCHANGED refined
    \/ GibbsStep /\ UNCHANGED refined
    \/ EndSweep /\ UNCHANGED refined
    \/ Return /\ UNCHANGED refined

Spec == Init /\ [][Next]_vars

\* ------------------------------------------------- the threshold estimator alone
\* Lines 61-75 applied once to every statistic vector of length 2..MaxStat
\* (one coordinate per row, so the vector is the population itself).
InitEstimator ==
    /\ N \in 2..MaxStat
    /\ n = 1
    /\ a_class \in AClasses
    /\ a \in (IF a_class = "finite" THEN 0..MaxA ELSE {0})
    /\ pc = "init"
    /\ X = <<>>
    /\ iteration = 0
    /\ thresholds = <<>>
    /\ vars_median = <<>>
    /\ accept_rates = <<>>
    /\ u_next = 0
    /\ j = 0
    /\ proposals = <<>>
    /\ accept = <<>>
    /\ total_accepts = 0
    /\ K = 0
    /\ prob = HalfPower(0)
    /\ samples = <<>>
    /\ current_sums = <<>>
    /\ accept_mask = <<>>
    /\ total_accept = 0

NextEstimator ==
    \/ Initialize /\ UNCHANGED refined
    \/ MedianStep /\ UNCHANGED refined

EstimatorSpec == InitEstimator /\ [][NextEstimator]_vars

\* ------------------------------------------------- the loop followed without end
\* The loop of lines 59-115 reads neither iteration nor the three trace lists,
\* so here the lists are left out and iteration counts up to MaxLevel and then
\* stays: every infinite behaviour below is the image of a run of the code.
MedianStepLoop ==
    /\ pc = "loop"
    /\ u_next' = Median(RowSums(X))
    /\ pc' = "check"
    /\ UNCHANGED <<N, n, a, a_class, X, iteration, thresholds, vars_median,
                   accept_rates, j, proposals, accept, total_accepts, K, prob>>

ContinueLoop ==
    /\ pc = "check"
    /\ ~TargetReached(u_next)
    /\ pc' = "select"
    /\ UNCHANGED <<N, n, a, a_class, X, iteration, thresholds, vars_median,
                   accept_rates, u_next, j, proposals, accept, total_accepts, K, prob>>

EndSweepLoop ==
    /\ pc = "gibbs"
    /\ j = n
    /\ IF N * n = 0
       THEN /\ pc' = "ZeroDivisionError"
            /\ UNCHANGED iteration
       ELSE /\ iteration' = (IF iteration < MaxLevel THEN iteration + 1 ELSE iteration)
            /\ pc' = "loop"
    /\ UNCHANGED <<N, n, a, a_class, X, thresholds, vars_median, accept_rates,
                   u_next, j, proposals, accept, total_accepts, K, prob>>

NextLoop ==
    \/ Initialize /\ UNCHANGED refined
    \/ MedianStepLoop /\ UNCHANGED refined
    \/ Converge /\ UNCHANGED refined
    \/ ContinueLoop /\ UNCHANGED refined
    \/ SelectResample /\ UNCHANGED refined
    \/ GibbsStep /\ UNCHANGED refined
    \/ EndSweepLoop /\ UNCHANGED refined
    \/ Return /\ UNCHANGED refined

\* the interpreter always executes the next statement of a call in progress
LoopSpec == Init /\ [][NextLoop]_vars /\ WF_vars(NextLoop)

\* ------------------------------------------------- the two sweeps side by side
\* refined_nested_sampling.py lines 66-69, entered with the population that
\* nested_sampling has just resampled (same starting population, same threshold)
RefinedSweepStart ==
    /\ samples' = X'
    /\ total_accept' = 0
    /\ current_sums' = RowSums(samples')
    /\ UNCHANGED accept_mask

\* refined_nested_sampling.py lines 72-78, with the proposals GibbsStep has drawn
RefinedGibbsStep ==
    LET prop == proposals'
        new_sums == NewSums(current_sums, samples, j + 1, prop)
    IN  /\ accept_mask' = AcceptMask(new_sums, u_next)
        /\ total_accept' = total_accept + Count(accept_mask')
        /\ samples' = Overwrite(samples, j + 1, prop, accept_mask')
        /\ current_sums' = CacheUpdate(current_sums, new_sums, accept_mask')

NextPair ==
    \/ Initialize /\ UNCHANGED refined
    \/ MedianStep /\ UNCHANGED refined
    \/ Converge /\ UNCHANGED refined
    \/ Continue /\ UNCHANGED refined
    \/ SelectResample /\ RefinedSweepStart
    \/ GibbsStep /\ RefinedGibbsStep
    \/ EndSweep /\ UNCHANGED refined
    \/ Return /\ UNCHANGED refined

PairSpec == Init /\ [][NextPair]_vars

\* ================================================================ properties

Halted == pc \in {"done", "ConvergenceFailure"}

\* C1: every call with valid arguments terminates, by returning a result or by
\* reporting ConvergenceFailure once an iteration guard is exhausted; it never
\* loops forever.
C1_Terminates == ValidInput => <>Halted

\* C2: the recorded thresholds are non-decreasing from each level to the next.
C2_ThresholdsNonDecreasing ==
    \A k \in 1..(Len(thresholds) - 1) : thresholds[k + 1] >= thresholds[k]

C2_Witness ==
    /\ Len(thresholds) >= 3
    /\ thresholds[2] > thresholds[1]
    /\ thresholds[3] = thresholds[2]
    /\ accept_rates[2].num > 0

\* C3: during a sweep with threshold u_next (after resampling and after each
\* single coordinate update) and at the end of the level, no row of the
\* population has a sum below u_next.
C3_SweepKeepsConstraint ==
    (pc = "gibbs" \/ (pc = "loop" /\ iteration >= 1)) =>
        \A i \in 1..N : 4 * SumSeq(X[i]) >= u_next

C3_Witness ==
    /\ pc = "gibbs"
    /\ n = 2
    /\ j = 1
    /\ \E i \in 1..N : accept[i]
    /\ \E i \in 1..N : ~accept[i]
    /\ \E i \in 1..N : 4 * SumSeq(X[i]) = u_next

\* C4: the population has exactly N rows from the moment it is drawn, and the
\* selection/resampling step yields N rows, each a copy of a row of the previous
\* population whose sum is >= u_next.
C4_ResampleFromSurvivors ==
    /\ [](pc # "init" => Len(X) = N)
    /\ [][(pc = "select" /\ pc' = "gibbs") =>
            /\ Len(X') = N
            /\ \A i \in 1..N : \E k \in 1..N :
                  /\ X'[i] = X[k]
                  /\ 4 * SumSeq(X[k]) >= u_next]_vars

C4_Witness ==
    /\ pc = "gibbs"
    /\ j = 0
    /\ N = 3
    /\ X[1] = X[2]
    /\ X[2] # X[3]
    /\ iteration = 1

\* the two central order statistics of a vector of even length
LowerCentral(s) == Sort(s)[Len(s) \div 2]
UpperCentral(s) == Sort(s)[Len(s) \div 2 + 1]

\* the median's lower order statistic, and the upper order statistic that the
\* interpolated 75th percentile reads
MedianLow(s) == Sort(s)[(Len(s) + 1) \div 2]
Q75High(s) == Sort(s)[(3 * (Len(s) - 1) + 3) \div 4 + 1]

LastVar == vars_median[Len(vars_median)]

\* C5 as stated, on the vectors of even length (where the two central order
\* statistics are two positions): the variance estimate is finite whenever the
\* two central order statistics differ and +infinity whenever they are equal.
C5_TieIffInfinite ==
    (pc = "check" /\ N >= 2 /\ N % 2 = 0) =>
        LET s == RowSums(X)
        IN  /\ (LowerCentral(s) # UpperCentral(s) => LastVar.finite)
            /\ (LowerCentral(s) = UpperCentral(s) => ~LastVar.finite)

\* C5 amended: the variance estimate is finite exactly when the upper order
\* statistic read by the interpolated Q75 exceeds the median's lower order
\* statistic (which is when Q75 > Q50), hence finite whenever the two central
\* order statistics differ, and a finite estimate is (Q75-Q50)^2 / N^3.
C5_FiniteIffQuartileAboveMedian ==
    (pc = "check" /\ N >= 2) =>
        LET s == RowSums(X)
        IN  /\ LastVar.finite <=> Q75High(s) > MedianLow(s)
            /\ (N % 2 = 0 /\ LowerCentral(s) # UpperCentral(s)) => LastVar.finite
            /\ LastVar.finite => LastVar.num > 0 /\ LastVar.den = 16 * N * N * N
            /\ ~LastVar.finite => LastVar = Inf

C5_Witness ==
    /\ pc = "check"
    /\ N = 4
    /\ LowerCentral(RowSums(X)) = UpperCentral(RowSums(X))
    /\ LastVar.finite

\* C6: a call with N < 2, n < 1 or a non-finite a is rejected before the loop:
\* no population is drawn, no level is recorded, no result is returned.
C6_InvalidRejected ==
    ~ValidInput =>
        /\ pc \in {"init", "InvalidParameter"}
        /\ X = <<>>
        /\ thresholds = <<>>

\* C7: the run stops at the first level whose median reaches the target, without
\* selecting, resampling or rejuvenating at that level; K counts the completed
\* levels, so the result holds K+1 thresholds, K+1 variances and K acceptance
\* rates, every earlier threshold is below the target, and probability = 0.5^K.
C7_ConvergesAtFirstLevel ==
    /\ [](Len(accept_rates) = iteration)
    /\ []((pc \in {"final", "done"}) =>
            /\ Len(thresholds) = iteration + 1
            /\ Len(vars_median) = iteration + 1
            /\ a_class = "finite" =>
                  /\ thresholds[iteration + 1] >= 4 * n * a
                  /\ \A k \in 1..iteration : thresholds[k] < 4 * n * a)
    /\ [](pc = "done" =>
            /\ K = Len(accept_rates)
            /\ prob.num = 1
            /\ prob.den = Pow2(Len(thresholds) - 1))
    /\ []((pc = "select" /\ a_class = "finite") => u_next < 4 * n * a)
    /\ [][(pc = "check" /\ a_class = "finite" /\ u_next >= 4 * n * a) =>
            /\ pc' = "final"
            /\ X' = X
            /\ accept_rates' = accept_rates
            /\ iteration' = iteration]_vars

C7_Witness ==
    /\ pc = "done"
    /\ ValidInput
    /\ K = 2
    /\ thresholds[1] < thresholds[2]
    /\ thresholds[2] < thresholds[3]

\* C8: at every selection the rows with sum >= the sample median are at least
\* half of the population, so the survivor set is never empty and the
\* empty-survivor error is never raised.
C8_SurvivorsAtLeastHalf ==
    /\ pc # "ValueError"
    /\ pc = "select" =>
          /\ Len(Survivors(X, u_next)) >= 1
          /\ 2 * Len(Survivors(X, u_next)) >= N
          /\ 2 * Cardinality({i \in 1..N : 4 * SumSeq(X[i]) >= u_next}) >= N

C8_Witness ==
    /\ pc = "select"
    /\ N = 3
    /\ \A i \in 1..N : 4 * SumSeq(X[i]) = u_next
    /\ iteration = 1

\* C9: each coordinate update adds to total_accepts the number of rows whose
\* cell was overwritten with its proposal, total_accepts stays within 0..N*n,
\* and every recorded rate is total_accepts/(N*n), within [0, 1].
C9_AcceptRateInUnitInterval ==
    /\ [](pc = "gibbs" => total_accepts >= 0 /\ total_accepts <= N * j)
    /\ [](\A k \in 1..Len(accept_rates) :
            /\ accept_rates[k].den = N * n
            /\ accept_rates[k].den > 0
            /\ accept_rates[k].num >= 0
            /\ accept_rates[k].num <= accept_rates[k].den)
    /\ [][(pc = "gibbs" /\ j' = j + 1) =>
            /\ total_accepts' - total_accepts
                  = Cardinality({i \in 1..N : accept'[i]})
            /\ \A i \in 1..N : accept'[i] => X'[i][j + 1] = proposals'[i]
            /\ \A i \in 1..N : X'[i] # X[i] => accept'[i]]_vars
    /\ [][(pc = "gibbs" /\ pc' = "loop") =>
            accept_rates'[Len(accept_rates')].num = total_accepts]_vars

C9_Witness ==
    /\ Len(accept_rates) >= 2
    /\ accept_rates[1].num = accept_rates[1].den
    /\ accept_rates[2].num = 0
    /\ n = 2

\* C10: the update of coordinate j changes a row only if its candidate sum
\* (sum - value at j + proposal) is >= u_next, and then only coordinate j, which
\* takes the proposal; rejected rows and all other coordinates are unchanged.
C10_UpdateFrame ==
    [][(pc = "gibbs" /\ j' = j + 1) =>
          \A i \in 1..N :
             LET candidate == SumSeq(X[i]) - X[i][j + 1] + proposals'[i]
             IN  IF 4 * candidate >= u_next
                 THEN /\ accept'[i]
                      /\ X'[i] = [X[i] EXCEPT ![j + 1] = proposals'[i]]
                 ELSE /\ ~accept'[i]
                      /\ X'[i] = X[i]]_vars

C10_Witness ==
    /\ pc = "gibbs"
    /\ n = 2
    /\ j = 2
    /\ N >= 2
    /\ accept[1]
    /\ ~accept[2]
    /\ X[1][2] = proposals[1]
    /\ X[2][2] # proposals[2]
    /\ X[1][1] # X[1][2]

\* C11: started on the same population with the same threshold and fed the same
\* proposals, the sweep that caches the row sums and the sweep that recomputes
\* them take the same accept/reject decision for every row and coordinate, and
\* end with the same population and the same accepted count; the cached sum of
\* each row is the actual sum of that row before every coordinate update.
C11_SweepsEquivalent ==
    pc = "gibbs" =>
        /\ samples = X
        /\ total_accept = total_accepts
        /\ j >= 1 => accept_mask = accept
        /\ Len(current_sums) = N
        /\ \A i \in 1..N : current_sums[i] = SumSeq(X[i])

C11_Witness ==
    /\ pc = "gibbs"
    /\ n = 2
    /\ j = 2
    /\ N >= 2
    /\ accept_mask[1]
    /\ ~accept_mask[2]
    /\ total_accept >= 2
    /\ \E i \in 1..N : 4 * current_sums[i] > u_next

====
